---- MODULE Spec2Model ----
(***************************************************************************)
(* Model of crowded_cot: the positioning-metrics engine                    *)
(* (src/crowded_cot/metrics.py) and the summary loop of the command line   *)
(* (src/crowded_cot/cli.py).                                               *)
(*                                                                         *)
(* Numbers.  A float is a tuple of integers: NaN is <<>>, a finite value   *)
(* is the reduced fraction <<n, d>> with d > 0, and +inf / -inf are        *)
(* <<1, 0>> / <<-1, 0>>.  Arithmetic is exact (no rounding).  A standard   *)
(* deviation is kept as its square (the variance), and a z-score as        *)
(* <<sign, p, q>> standing for sign * sqrt(p / q), so that the comparisons *)
(* against the thresholds are exact; <<1, 1, 0>> / <<-1, 1, 0>> are the    *)
(* infinite z-scores.  A raw cell is <<>> (missing) or <<v>>.              *)
(***************************************************************************)
EXTENDS Integers, Sequences, FiniteSets, TLC

\* ------------------------------------------------------------------ bounds
\* Rows of an input table; lookback_weeks ranges over 1..MaxRows + 1 when the
\* engine is called directly (a window longer than any contract's history
\* included) and over 1..MaxRows from the command line.
MaxRows == 2
\* Length of a column handed to the rolling helpers alone; the window length
\* and the minimum history range over 1..MaxLen there.
MaxLen == 4
\* The command line's --confirm-weeks ranges over 1..MaxConfirmWeeks.
MaxConfirmWeeks == 3

\* ------------------------------------------------------- program constants
MIN_REQUIRED_WEEKS == 156
AM_LONG_PCT_ENGINE == 90
LF_SHORT_PCT_ENGINE == 10

\* ------------------------------------------------------------------ floats
NaN == <<>>

Abs(n) == IF n < 0 THEN -n ELSE n

Sign(n) == IF n < 0 THEN -1 ELSE IF n = 0 THEN 0 ELSE 1

RECURSIVE Gcd(_, _)
Gcd(a, b) == IF b = 0 THEN a ELSE Gcd(b, a % b)

\* The float n / d for integers n, d: 0/0 is NaN, n/0 is +-inf.
Frac(n, d) ==
    IF d = 0 THEN (IF n = 0 THEN NaN ELSE <<Sign(n), 0>>)
    ELSE LET g == Gcd(Abs(n), Abs(d))
             s == Sign(d)
         IN <<(s * n) \div g, (s * d) \div g>>

IsNaN(a) == a = NaN

IsInf(a) == a # NaN /\ a[2] = 0

FAdd(a, b) ==
    IF IsNaN(a) \/ IsNaN(b) THEN NaN
    ELSE IF IsInf(a) /\ IsInf(b) THEN (IF a[1] = b[1] THEN a ELSE NaN)
    ELSE IF IsInf(a) THEN a
    ELSE IF IsInf(b) THEN b
    ELSE Frac(a[1] * b[2] + b[1] * a[2], a[2] * b[2])

FNeg(a) == IF IsNaN(a) THEN NaN ELSE <<-a[1], a[2]>>

FSub(a, b) == FAdd(a, FNeg(b))

FMul(a, b) ==
    IF IsNaN(a) \/ IsNaN(b) THEN NaN
    ELSE Frac(a[1] * b[1], a[2] * b[2])

FDiv(a, b) ==
    IF IsNaN(a) \/ IsNaN(b) THEN NaN
    ELSE IF IsInf(b) THEN (IF IsInf(a) THEN NaN ELSE <<0, 1>>)
    ELSE Frac(a[1] * b[2], a[2] * b[1])

\* a <= b on floats; any comparison with NaN is false.
FLe(a, b) ==
    /\ ~IsNaN(a)
    /\ ~IsNaN(b)
    /\ IF IsInf(a) /\ IsInf(b) THEN a[1] <= b[1]
       ELSE a[1] * b[2] <= b[1] * a[2]

FGe(a, b) == FLe(b, a)

FromInt(n) == <<n, 1>>

\* ------------------------------------------------------- sequence helpers
\* a[~np.isnan(a)]
SelectNotNaN(s) == SelectSeq(s, LAMBDA v : v # <<>>)

RECURSIVE InsertSorted(_, _)
InsertSorted(x, s) ==
    IF s = <<>> THEN <<x>>
    ELSE IF FLe(x, Head(s)) /\ ~FLe(Head(s), x) THEN <<x>> \o s
    ELSE <<Head(s)>> \o InsertSorted(x, Tail(s))

\* np.sort of an array without NaN.
RECURSIVE NpSort(_)
NpSort(s) == IF s = <<>> THEN <<>> ELSE InsertSorted(Head(s), NpSort(Tail(s)))

\* side="left" instead: the number of leading elements < x.
RECURSIVE SearchSortedLeft(_, _)
SearchSortedLeft(a, x) ==
    IF a = <<>> THEN 0
    ELSE IF FLe(Head(a), x) /\ ~FLe(x, Head(a)) THEN 1 + SearchSortedLeft(Tail(a), x)
    ELSE 0

\* np.searchsorted(a, x, side="right"): the number of leading elements <= x.
RECURSIVE SearchSortedRight(_, _)
SearchSortedRight(a, x) ==
    IF a = <<>> THEN 0
    ELSE IF FLe(Head(a), x) THEN 1 + SearchSortedRight(Tail(a), x)
    ELSE 0

RECURSIVE FSumTo(_, _)
FSumTo(s, n) == IF n = 0 THEN <<0, 1>> ELSE FAdd(FSumTo(s, n - 1), s[n])

FSum(s) == FSumTo(s, Len(s))

Max(a, b) == IF a >= b THEN a ELSE b

Min(a, b) == IF a <= b THEN a ELSE b

\* The trailing window of `lookback` rows ending at position i (1-based).
Window(series, lookback, i) == SubSeq(series, Max(1, i - lookback + 1), i)

\* ------------------------------------------------------------- metrics.py
\* Dividing by the size of the raw window, NaNs included.
PercentileRankIncRawSize(window_vals, x) ==
    LET vals == SelectNotNaN(window_vals)
    IN IF Len(vals) = 0 \/ IsNaN(x) THEN NaN
       ELSE Frac(100 * SearchSortedRight(NpSort(vals), x), Len(window_vals))

PercentileRankInc(window_vals, x) ==
    LET vals == SelectNotNaN(window_vals)
    IN IF Len(vals) = 0 \/ IsNaN(x) THEN NaN
       ELSE Frac(100 * SearchSortedRight(NpSort(vals), x), Len(vals))

RollingPct(series, lookback) ==
    [i \in 1..Len(series) |->
        PercentileRankInc(Window(series, lookback, i), series[i])]

\* The mean and the sample variance (ddof = 1) of the non-NaN values of one
\* window, as pandas' rolling(lookback, min_periods) gives them: NaN with
\* fewer than min_periods values, the variance also with fewer than two.
WindowMean(vals, min_periods) ==
    IF Len(vals) < min_periods \/ Len(vals) = 0 THEN NaN
    ELSE FDiv(FSum(vals), FromInt(Len(vals)))

WindowVar(vals, min_periods) ==
    LET n == Len(vals)
        mean == FDiv(FSum(vals), FromInt(n))
        sq == [k \in 1..n |-> LET d == FSub(vals[k], mean) IN FMul(d, d)]
    IN IF n < min_periods \/ n - 1 <= 0 THEN NaN
       ELSE FDiv(FSum(SubSeq(sq, 1, n)), FromInt(n - 1))

\* series.rolling(lookback, min_periods=m).mean() and .std(ddof=1), the std as
\* its square.
RollingMean(series, lookback, m) ==
    [i \in 1..Len(series) |->
        WindowMean(SelectNotNaN(Window(series, lookback, i)), m)]

RollingStd(series, lookback, m) ==
    [i \in 1..Len(series) |->
        WindowVar(SelectNotNaN(Window(series, lookback, i)), m)]

\* Without the clamp of min_required to lookback.
RollingStatsUnclamped(series, lookback, min_required) ==
    [mean |-> RollingMean(series, lookback, min_required),
     std |-> RollingStd(series, lookback, min_required)]

RollingStats(series, lookback, min_required) ==
    LET m == Min(lookback, min_required)
    IN [mean |-> RollingMean(series, lookback, m),
        std |-> RollingStd(series, lookback, m)]

\* (x - mean) / std for one row, std given as its square.
ZNaN == <<0, 0, 0>>

\* A guard that turns a zero std into a zero z-score.
ZDivZeroStdIsZero(diff, var) ==
    IF IsNaN(diff) \/ IsNaN(var) THEN ZNaN
    ELSE IF var[1] = 0 THEN <<0, 0, 1>>
    ELSE LET sq == FDiv(FMul(diff, diff), var)
         IN <<Sign(diff[1]), sq[1], sq[2]>>

ZDiv(diff, var) ==
    IF IsNaN(diff) \/ IsNaN(var) THEN ZNaN
    ELSE IF var[1] = 0 THEN
        (IF diff[1] = 0 THEN ZNaN ELSE <<Sign(diff[1]), 1, 0>>)
    ELSE IF IsInf(diff) THEN <<diff[1], 1, 0>>
    ELSE LET sq == FDiv(FMul(diff, diff), var)
         IN <<Sign(diff[1]), sq[1], sq[2]>>

ZIsNaN(z) == z = ZNaN

ZIsInf(z) == z # ZNaN /\ z[3] = 0

\* z >= t and z <= t for a float t; false on NaN.
ZGe(z, t) ==
    /\ ~ZIsNaN(z)
    /\ ~IsNaN(t)
    /\ IF ZIsInf(z) THEN z[1] > 0
       ELSE IF t[1] <= 0
            THEN z[1] >= 0 \/ z[2] * t[2] * t[2] <= t[1] * t[1] * z[3]
            ELSE z[1] > 0 /\ z[2] * t[2] * t[2] >= t[1] * t[1] * z[3]

ZLe(z, t) ==
    /\ ~ZIsNaN(z)
    /\ ~IsNaN(t)
    /\ IF ZIsInf(z) THEN z[1] < 0
       ELSE IF t[1] >= 0
            THEN z[1] <= 0 \/ z[2] * t[2] * t[2] <= t[1] * t[1] * z[3]
            ELSE z[1] < 0 /\ z[2] * t[2] * t[2] >= t[1] * t[1] * z[3]

\* g[col] - mean) / std over a whole column.
ZScores(series, stats) ==
    [i \in 1..Len(series) |->
        ZDiv(FSub(series[i], stats.mean[i]), stats.std[i])]

\* ------------------------------------------------------------- the input
\* Contract codes (the keys of MARKET_ALIASES), in their sort order.
Contracts == <<"ES", "NQ">>

ContractRank(c) == CHOOSE k \in 1..Len(Contracts) : Contracts[k] = c

RequiredCols ==
    {"open_interest", "asset_mgr_long", "asset_mgr_short",
     "lev_fund_long", "lev_fund_short"}

SecondaryCols ==
    [dealer |-> {"dealer_long", "dealer_short"},
     other_rept |-> {"other_rept_long", "other_rept_short"},
     nonrept |-> {"nonrept_long", "nonrept_short"}]

SecondaryGroups == {"dealer", "other_rept", "nonrept"}

AllSecondaryCols == UNION {SecondaryCols[c] : c \in SecondaryGroups}

\* The weekly observations a loader may deliver for one (contract, date):
\* open interest missing, zero or positive, and positions that give each
\* category several distinct ratios.  A cell is <<>> (missing) or <<count>>.
Obs(oi, aml, ams, lfl, lfs, dl, ds, ol, os, nl, ns) ==
    [open_interest |-> oi,
     asset_mgr_long |-> aml, asset_mgr_short |-> ams,
     lev_fund_long |-> lfl, lev_fund_short |-> lfs,
     dealer_long |-> dl, dealer_short |-> ds,
     other_rept_long |-> ol, other_rept_short |-> os,
     nonrept_long |-> nl, nonrept_short |-> ns]

Observations ==
    { Obs(<<>>,  <<3>>, <<1>>, <<1>>, <<3>>, <<1>>, <<1>>, <<2>>, <<1>>, <<1>>, <<2>>),
      Obs(<<0>>, <<1>>, <<0>>, <<0>>, <<1>>, <<1>>, <<0>>, <<0>>, <<0>>, <<0>>, <<1>>),
      Obs(<<4>>, <<3>>, <<1>>, <<1>>, <<3>>, <<2>>, <<1>>, <<1>>, <<1>>, <<1>>, <<2>>),
      Obs(<<2>>, <<2>>, <<0>>, <<1>>, <<2>>, <<1>>, <<1>>, <<2>>, <<1>>, <<0>>, <<0>>),
      Obs(<<1>>, <<0>>, <<0>>, <<0>>, <<2>>, <<1>>, <<0>>, <<0>>, <<1>>, <<1>>, <<0>>) }

Restrict(f, S) == [x \in S |-> f[x]]

Dates == 1..MaxRows

ContractSet == { Contracts[k] : k \in 1..Len(Contracts) }

Key(r) == <<ContractRank(r["contract"]), r["report_date"]>>

KeyLt(a, b) == a[1] < b[1] \/ (a[1] = b[1] /\ a[2] < b[2])

\* The (contract, report_date) keys of a table of n rows, in any row order:
\* one row per key, and report_date counting a contract's weekly reports from
\* 1, so that a contract with k rows holds the dates 1..k.
KeySeqs(n) ==
    { ks \in [1..n -> ContractSet \X Dates] :
        /\ \A i, j \in 1..n : i # j => ks[i] # ks[j]
        /\ \A i \in 1..n : \A d \in 1..(ks[i][2] - 1) :
              \E j \in 1..n : ks[j] = <<ks[i][1], d>> }

\* The tables of n rows holding the columns `cols`.
TablesOfLen(cols, n) ==
    { [i \in 1..n |->
          [report_date |-> ks[i][2], contract |-> ks[i][1]]
          @@ Restrict(os[i], cols)] :
        ks \in KeySeqs(n), os \in [1..n -> Observations] }

Tables(cols) == UNION { TablesOfLen(cols, n) : n \in 0..MaxRows }

\* ------------------------------------------------ compute_positioning_metrics
\* work.sort_values(["contract", "report_date"]).reset_index(drop=True)
RECURSIVE InsertRow(_, _)
InsertRow(r, t) ==
    IF t = <<>> THEN <<r>>
    ELSE IF KeyLt(Key(r), Key(Head(t))) THEN <<r>> \o t
    ELSE <<Head(t)>> \o InsertRow(r, Tail(t))

RECURSIVE SortValues(_)
SortValues(t) ==
    IF t = <<>> THEN <<>> ELSE InsertRow(t[Len(t)], SortValues(SubSeq(t, 1, Len(t) - 1)))

\* pd.to_numeric(..., errors="coerce") of one cell; also the float a numeric
\* cell stands for in arithmetic.
ToNumeric(cell) == IF cell = <<>> THEN NaN ELSE FromInt(cell[1])

\* A table or a column held in memory: every entry computed once.
Stored(col) == SubSeq(col, 1, Len(col))

\* work[c] = pd.to_numeric(work[c], errors="coerce") for the five num_cols.
CoerceNumCols(t) ==
    Stored([i \in 1..Len(t) |->
        LET r == t[i]
        IN [c \in RequiredCols |-> ToNumeric(r[c])] @@ r])

\* Without the replacement of a zero open interest.
ReplaceZeroKeep(oi) == oi

\* work["open_interest"].replace(0, np.nan)
ReplaceZero(oi) == IF oi = <<0, 1>> THEN NaN ELSE oi

\* 100.0 * ((long - short) / oi)
NetPctOi(long, short, oi) ==
    FMul(FromInt(100), FDiv(FSub(long, short), oi))

\* Lines 81-88: the two primary ratios.
WithPrimaryRatios(t) ==
    Stored([i \in 1..Len(t) |->
        LET r == t[i]
            oi == ReplaceZero(r["open_interest"])
        IN [am_net_pct_oi |->
                NetPctOi(r["asset_mgr_long"], r["asset_mgr_short"], oi),
            lf_net_pct_oi |->
                NetPctOi(r["lev_fund_long"], r["lev_fund_short"], oi)]
           @@ r])

\* Lines 90-92: the three secondary ratios (the columns are read unguarded).
WithSecondaryRatios(t) ==
    Stored([i \in 1..Len(t) |->
        LET r == t[i]
            oi == ReplaceZero(r["open_interest"])
        IN [di_net_pct_oi |->
                NetPctOi(ToNumeric(r["dealer_long"]),
                         ToNumeric(r["dealer_short"]), oi),
            or_net_pct_oi |->
                NetPctOi(ToNumeric(r["other_rept_long"]),
                         ToNumeric(r["other_rept_short"]), oi),
            nr_net_pct_oi |->
                NetPctOi(ToNumeric(r["nonrept_long"]),
                         ToNumeric(r["nonrept_short"]), oi)]
           @@ r])

Column(g, name) == Stored([i \in 1..Len(g) |-> g[i][name]])

\* work.groupby("contract", sort=False): the group keys in order of first
\* appearance, and the rows of one group.
RECURSIVE GroupKeys(_)
GroupKeys(t) ==
    IF t = <<>> THEN <<>>
    ELSE LET rest == GroupKeys(SubSeq(t, 1, Len(t) - 1))
             c == t[Len(t)]["contract"]
         IN IF \E k \in 1..Len(rest) : rest[k] = c THEN rest ELSE Append(rest, c)

GroupRowsAll(t, contract) == t

GroupRows(t, contract) == SelectSeq(t, LAMBDA r : r["contract"] = contract)

\* shift(-1) instead: the following week.
ConfirmedLookAhead(ext) ==
    [i \in 1..Len(ext) |-> ext[i] /\ (IF i = Len(ext) THEN FALSE ELSE ext[i + 1])]

\* ext & ext.shift(1, fill_value=False)

Confirmed(ext) ==
    [i \in 1..Len(ext) |-> ext[i] /\ (IF i = 1 THEN FALSE ELSE ext[i - 1])]

\* One z-score column and one percentile column of a group.
ZColumn(g, col, lookback, min_required) ==
    ZScores(Column(g, col), RollingStats(Column(g, col), lookback, min_required))

PctColumn(g, col, lookback) == RollingPct(Column(g, col), lookback)

\* Lines 139-140.  (ExtremeAmLongZOnly leaves the percentile test out.)
ExtremeAmLongZOnly(pct, z, thr) ==
    [i \in 1..Len(pct) |-> ZGe(z[i], thr)]

ExtremeAmLong(pct, z, thr) ==
    [i \in 1..Len(pct) |->
        FGe(pct[i], FromInt(AM_LONG_PCT_ENGINE)) \/ ZGe(z[i], thr)]

ExtremeLevShort(pct, z, thr) ==
    [i \in 1..Len(pct) |->
        FLe(pct[i], FromInt(LF_SHORT_PCT_ENGINE)) \/ ZLe(z[i], FNeg(thr))]

\* The z-score column of a secondary category.  Lines 110-121 assign it with
\* the caller's min_required_weeks; lines 123-136 assign it again, calling
\* _rolling_stats without min_required, and that second value is the column's.
SecondaryZFirstAssignment(g, col, lookback, min_required) ==
    ZColumn(g, col, lookback, min_required)

SecondaryZ(g, col, lookback, min_required) ==
    ZColumn(g, col, lookback, MIN_REQUIRED_WEEKS)

\* Lines 97-150: the derived columns of one group.
DeriveGroup(rows, thr, lookback, min_required) ==
    LET g == Stored(rows)
        am_z == Stored(ZColumn(g, "am_net_pct_oi", lookback, min_required))
        am_pct == Stored(PctColumn(g, "am_net_pct_oi", lookback))
        lf_z == Stored(ZColumn(g, "lf_net_pct_oi", lookback, min_required))
        lf_pct == Stored(PctColumn(g, "lf_net_pct_oi", lookback))
        di_z == SecondaryZ(g, "di_net_pct_oi", lookback, min_required)
        or_z == SecondaryZ(g, "or_net_pct_oi", lookback, min_required)
        nr_z == SecondaryZ(g, "nr_net_pct_oi", lookback, min_required)
        di_pct == PctColumn(g, "di_net_pct_oi", lookback)
        or_pct == PctColumn(g, "or_net_pct_oi", lookback)
        nr_pct == PctColumn(g, "nr_net_pct_oi", lookback)
        ext_am == Stored(ExtremeAmLong(am_pct, am_z, thr))
        ext_lf == Stored(ExtremeLevShort(lf_pct, lf_z, thr))
        conf_am == Confirmed(ext_am)
        conf_lf == Confirmed(ext_lf)
    IN Stored([i \in 1..Len(g) |->
          [asset_mgr_z |-> am_z[i], asset_mgr_pct |-> am_pct[i],
           lev_fund_z |-> lf_z[i], lev_fund_pct |-> lf_pct[i],
           dealer_z |-> di_z[i], dealer_pct |-> di_pct[i],
           other_rep_z |-> or_z[i], other_rep_pct |-> or_pct[i],
           nonrept_z |-> nr_z[i], nonrept_pct |-> nr_pct[i],
           is_extreme_am_long |-> ext_am[i],
           is_extreme_lev_short |-> ext_lf[i],
           is_confirmed_extreme_am_long |-> conf_am[i],
           is_confirmed_extreme_lev_short |-> conf_lf[i],
           extreme_crowding |-> ext_am[i] \/ ext_lf[i]]
          @@ g[i]])

\* pd.concat(results, ignore_index=True)
RECURSIVE Concat(_)
Concat(rs) == IF rs = <<>> THEN <<>> ELSE Head(rs) \o Concat(Tail(rs))

\* compute_positioning_metrics as a function of a table that holds every
\* column.
ComputePositioningMetrics(t, thr, lookback, min_required) ==
    IF t = <<>> THEN t
    ELSE LET w == WithSecondaryRatios(WithPrimaryRatios(CoerceNumCols(SortValues(t))))
             keys == GroupKeys(w)
         IN Concat([k \in 1..Len(keys) |->
                       DeriveGroup(GroupRows(w, keys[k]), thr, lookback,
                                   min_required)])

\* ------------------------------------------------------------------ state
VARIABLES
    pc,                  \* where the call is
    caller,              \* "none", "api" (the engine called directly) or "cli"
    df,                  \* the input table
    present,             \* the secondary categories whose columns df holds
    threshold,           \* compute_positioning_metrics' parameters
    lookback_weeks,
    min_required_weeks,
    work,                \* the engine's locals
    todo,
    results,
    out,                 \* the returned table
    err,                 \* the exception raised, or "none"
    args,                \* the command line's own options
    report,              \* the summary line's verdict per contract
    series,              \* one column handed to the rolling helpers
    idx,                 \* _rolling_pct's loop index
    pct_out,             \* _rolling_pct's out array
    z_out                \* the z-score column from _rolling_stats

vars ==
    <<pc, caller, df, present, threshold, lookback_weeks, min_required_weeks,
      work, todo, results, out, err, args, report, series, idx, pct_out, z_out>>

engineVars == <<work, todo, results, out, err>>

rollingVars == <<series, idx, pct_out, z_out>>

NoArgs == [am_long_pct |-> NaN, lf_short_pct |-> NaN, confirm_weeks |-> 0]

\* The z threshold a direct call is given, and those of the command line: one
\* half, and the default 2.0.
Thresholds == {Frac(1, 2)}

CliThresholds == {Frac(1, 2), FromInt(2)}

ColsOf(groups) == RequiredCols \cup UNION {SecondaryCols[c] : c \in groups}

Blank ==
    /\ pc = "idle"
    /\ caller = "none"
    /\ threshold = NaN
    /\ lookback_weeks = 0
    /\ min_required_weeks = 0
    /\ work = <<>>
    /\ todo = <<>>
    /\ results = <<>>
    /\ out = <<>>
    /\ err = "none"
    /\ args = NoArgs
    /\ report = <<>>
    /\ series = <<>>
    /\ idx = 0
    /\ pct_out = <<>>
    /\ z_out = <<>>

\* A table with every column, as CftcPRELoader.load returns it.
Init ==
    /\ present = SecondaryGroups
    /\ df \in Tables(ColsOf(present))
    /\ Blank

\* Lines 63-77: the empty table is returned as it is; otherwise the copy is
\* sorted and its numeric columns coerced.
Enter ==
    IF df = <<>>
    THEN /\ pc' = "returned"
         /\ out' = df
         /\ UNCHANGED <<work, todo, results, err>>
    ELSE /\ pc' = "sorted"
         /\ work' = CoerceNumCols(SortValues(df))
         /\ UNCHANGED <<todo, results, out, err>>

\* The minimum histories a direct call is given: two weeks (the fewest a
\* sample std can be taken of), and the default.
MinRequiredChoices == {2, MIN_REQUIRED_WEEKS}

\* A direct call of compute_positioning_metrics(df, threshold, lookback_weeks,
\* min_required_weeks).
CallEngine ==
    /\ pc = "idle"
    /\ caller' = "api"
    /\ \E t \in Thresholds : threshold' = t
    /\ \E l \in 1..(MaxRows + 1) : lookback_weeks' = l
    /\ \E m \in MinRequiredChoices : min_required_weeks' = m
    /\ Enter
    /\ UNCHANGED <<df, present, args, report, rollingVars>>

\* Lines 81-88.
PrimaryRatios ==
    /\ pc = "sorted"
    /\ pc' = "primary"
    /\ work' = WithPrimaryRatios(work)
    /\ UNCHANGED <<caller, df, present, threshold, lookback_weeks,
                   min_required_weeks, todo, results, out, err, args, report,
                   rollingVars>>

\* Lines 90-92: work["dealer_long"] and the like raise KeyError when the
\* column is absent.
SecondaryRatios ==
    /\ pc = "primary"
    /\ IF present = SecondaryGroups
       THEN /\ pc' = "grouping"
            /\ work' = WithSecondaryRatios(work)
            /\ todo' = GroupKeys(work)
            /\ UNCHANGED <<results, out, err>>
       ELSE /\ pc' = "raised"
            /\ err' = "KeyError"
            /\ work' = <<>>
            /\ UNCHANGED <<todo, results, out>>
    /\ UNCHANGED <<caller, df, present, threshold, lookback_weeks,
                   min_required_weeks, args, report, rollingVars>>

\* Lines 96-152: one iteration of the loop over the groups.
ProcessGroup ==
    /\ pc = "grouping"
    /\ todo # <<>>
    /\ results' = Append(results,
                         DeriveGroup(GroupRows(work, Head(todo)), threshold,
                                     lookback_weeks, min_required_weeks))
    /\ todo' = Tail(todo)
    /\ UNCHANGED <<pc, caller, df, present, threshold, lookback_weeks,
                   min_required_weeks, work, out, err, args, report,
                   rollingVars>>

\* Lines 154-192: the groups are concatenated and returned.
Return ==
    /\ pc = "grouping"
    /\ todo = <<>>
    /\ pc' = "returned"
    /\ out' = Concat(results)
    /\ work' = <<>>
    /\ results' = <<>>
    /\ UNCHANGED <<caller, df, present, threshold, lookback_weeks,
                   min_required_weeks, todo, err, args, report, rollingVars>>

Next ==
    \/ CallEngine
    \/ PrimaryRatios
    \/ SecondaryRatios
    \/ ProcessGroup
    \/ Return

Spec == Init /\ [][Next]_vars

\* The signature's default threshold, line 45.
THRESHOLD_DEFAULT == FromInt(2)

\* A direct call that leaves threshold and min_required_weeks at their
\* defaults: compute_positioning_metrics(df, lookback_weeks=l).
CallEngineDefaults ==
    /\ pc = "idle"
    /\ caller' = "api"
    /\ threshold' = THRESHOLD_DEFAULT
    /\ \E l \in 1..(MaxRows + 1) : lookback_weeks' = l
    /\ min_required_weeks' = MIN_REQUIRED_WEEKS
    /\ Enter
    /\ UNCHANGED <<df, present, args, report, rollingVars>>

NextDefaults ==
    \/ CallEngineDefaults
    \/ PrimaryRatios
    \/ SecondaryRatios
    \/ ProcessGroup
    \/ Return

SpecDefaults == Init /\ [][NextDefaults]_vars

\* ------------------------------------------------------------------ cli.py
\* The percentile thresholds tried: the defaults 90 and 10, and 50.
AmLongPcts == {FromInt(90), FromInt(50)}

LfShortPcts == {FromInt(10), FromInt(50)}

\* CsvFolderLoader.load coerces the five required columns and passes the
\* others on when the files hold them: a table with or without the secondary
\* categories.
InitCli ==
    /\ present \in {SecondaryGroups, {}}
    /\ df \in Tables(ColsOf(present))
    /\ Blank

\* main, lines 103-112: the options are parsed and the engine is called with
\* threshold and lookback_weeks only, so min_required_weeks is its default.
Main ==
    /\ pc = "idle"
    /\ caller' = "cli"
    /\ \E a \in AmLongPcts, l \in LfShortPcts, w \in 1..MaxConfirmWeeks :
          args' = [am_long_pct |-> a, lf_short_pct |-> l, confirm_weeks |-> w]
    /\ \E t \in CliThresholds : threshold' = t
    /\ \E l \in 1..MaxRows : lookback_weeks' = l
    /\ min_required_weeks' = MIN_REQUIRED_WEEKS
    /\ Enter
    /\ UNCHANGED <<df, present, report, rollingVars>>

\* g.tail(w)
TailRows(g, w) == SubSeq(g, Max(1, Len(g) - w + 1), Len(g))

AllTrue(bs) == \A i \in 1..Len(bs) : bs[i]

\* Lines 133-184: the verdict on one contract's rows.
Verdict(g, a) ==
    LET today == g[Len(g)]
        w == Max(1, a.confirm_weeks)
        tail == TailRows(g, w)
        am_series ==
            [i \in 1..Len(tail) |->
                FGe(tail[i]["asset_mgr_pct"], a.am_long_pct)
                \/ ZGe(tail[i]["asset_mgr_z"], threshold)]
        lf_series ==
            [i \in 1..Len(tail) |->
                FLe(tail[i]["lev_fund_pct"], a.lf_short_pct)
                \/ ZLe(tail[i]["lev_fund_z"], FNeg(threshold))]
        am_conf == IF Len(tail) = w THEN AllTrue(am_series) ELSE FALSE
        lf_conf == IF Len(tail) = w THEN AllTrue(lf_series) ELSE FALSE
    IN [contract |-> today["contract"],
        am_ext_today |->
            FGe(today["asset_mgr_pct"], a.am_long_pct)
            \/ ZGe(today["asset_mgr_z"], threshold),
        lf_ext_today |->
            FLe(today["lev_fund_pct"], a.lf_short_pct)
            \/ ZLe(today["lev_fund_z"], FNeg(threshold)),
        w |-> w,
        am_conf |-> am_conf,
        lf_conf |-> lf_conf,
        trade |-> IF lf_conf /\ ~am_conf THEN "YES (LONG)"
                  ELSE IF am_conf /\ ~lf_conf THEN "YES (SHORT)"
                  ELSE IF am_conf /\ lf_conf THEN "YES (CONFLICT)"
                  ELSE "NO"]

\* Lines 121-206: the summary, one verdict per contract.
Summary ==
    /\ pc = "returned"
    /\ caller = "cli"
    /\ pc' = "printed"
    /\ report' =
          LET sorted == SortValues(out)
              keys == GroupKeys(sorted)
          IN [k \in 1..Len(keys) |-> Verdict(GroupRows(sorted, keys[k]), args)]
    /\ UNCHANGED <<caller, df, present, threshold, lookback_weeks,
                   min_required_weeks, engineVars, args, rollingVars>>

NextCli ==
    \/ Main
    \/ PrimaryRatios
    \/ SecondaryRatios
    \/ ProcessGroup
    \/ Return
    \/ Summary

SpecCli == InitCli /\ [][NextCli]_vars

\* ------------------------------------------- the rolling helpers on a column
\* The values of one contract's ratio column.
SeriesValues == {NaN, FromInt(0), FromInt(50), FromInt(100)}

RECURSIVE SeriesOfLen(_)
SeriesOfLen(n) ==
    IF n = 0 THEN {<<>>}
    ELSE { Append(q, v) : q \in SeriesOfLen(n - 1), v \in SeriesValues }

InitRolling ==
    /\ pc = "stats"
    /\ caller = "none"
    /\ present = SecondaryGroups
    /\ df = <<>>
    /\ threshold = NaN
    /\ lookback_weeks \in 1..MaxLen
    /\ min_required_weeks \in 1..MaxLen
    /\ work = <<>>
    /\ todo = <<>>
    /\ results = <<>>
    /\ out = <<>>
    /\ err = "none"
    /\ args = NoArgs
    /\ report = <<>>
    /\ series \in UNION { SeriesOfLen(n) : n \in 0..MaxLen }
    /\ idx = 0
    /\ pct_out = <<>>
    /\ z_out = <<>>

\* Lines 100-101 for one column: _rolling_stats, then (x - mean) / std.
RollingZ ==
    /\ pc = "stats"
    /\ z_out' = ZScores(series,
                        RollingStats(series, lookback_weeks, min_required_weeks))
    /\ pc' = "pct"
    /\ pct_out' = [i \in 1..Len(series) |-> NaN]
    /\ idx' = 0
    /\ UNCHANGED <<caller, df, present, threshold, lookback_weeks,
                   min_required_weeks, engineVars, args, report, series>>

\* Lines 37-39: one iteration of _rolling_pct's loop (idx is the 0-based i).
RollingPctStep ==
    /\ pc = "pct"
    /\ idx < Len(series)
    /\ LET lo == Max(0, idx - lookback_weeks + 1)
       IN pct_out' = [pct_out EXCEPT ![idx + 1] =
                        PercentileRankInc(SubSeq(series, lo + 1, idx + 1),
                                          series[idx + 1])]
    /\ idx' = idx + 1
    /\ UNCHANGED <<pc, caller, df, present, threshold, lookback_weeks,
                   min_required_weeks, engineVars, args, report, series, z_out>>

\* Line 40.
RollingPctReturn ==
    /\ pc = "pct"
    /\ idx = Len(series)
    /\ pc' = "done"
    /\ UNCHANGED <<caller, df, present, threshold, lookback_weeks,
                   min_required_weeks, engineVars, args, report, rollingVars>>

NextRolling ==
    \/ RollingZ
    \/ RollingPctStep
    \/ RollingPctReturn

SpecRolling == InitRolling /\ [][NextRolling]_vars

\* ------------------------------------------------------------------ claims
\* The positions of the trailing window ending at i, and those holding a value.
WinIdx(i) == Max(1, i - lookback_weeks + 1)..i

NonNull(i) == { k \in WinIdx(i) : ~IsNaN(series[k]) }

Count(i) == Cardinality(NonNull(i))

AtOrBelow(i) == { k \in NonNull(i) : FLe(series[k], series[i]) }

IsWindowMax(i) == \A k \in NonNull(i) : FLe(series[k], series[i])

IsWindowMin(i) == \A k \in NonNull(i) : FLe(series[i], series[k])

IsStrictWindowMin(i) ==
    \A k \in NonNull(i) \ {i} : FLe(series[i], series[k]) /\ ~FLe(series[k], series[i])

WindowConstant(i) == \A j, k \in NonNull(i) : series[j] = series[k]

PctComputed == IF pc \in {"pct", "done"} THEN 1..idx ELSE {}

ZComputed == IF pc \in {"pct", "done"} THEN 1..Len(series) ELSE {}

\* C2: at every position, _rolling_pct returns 100 * (number of non-null window
\* values <= the current value) / (number of non-null window values), and null
\* when the current value is null or the window holds no value; the finished
\* column is the one the engine uses.
C2_RollingPctFormula ==
    /\ \A i \in PctComputed :
          pct_out[i] =
              IF IsNaN(series[i]) \/ NonNull(i) = {} THEN NaN
              ELSE Frac(100 * Cardinality(AtOrBelow(i)), Count(i))
    /\ pc = "done" => pct_out = RollingPct(series, lookback_weeks)

\* A finished column where a window that has slid past the start and holds a
\* null ranks its value strictly inside (0, 100).
C2_Witness ==
    /\ pc = "done"
    /\ \E i \in 1..Len(series) :
          /\ i > lookback_weeks
          /\ \E k \in WinIdx(i) : IsNaN(series[k])
          /\ ~IsNaN(pct_out[i])
          /\ pct_out[i] # FromInt(100)

\* C9 as written: the window's maximum ranks 100 and the window's minimum ranks
\* 100 / window_size.
C9_AsWritten ==
    \A i \in PctComputed :
        ~IsNaN(series[i]) =>
            /\ IsWindowMax(i) => pct_out[i] = FromInt(100)
            /\ IsWindowMin(i) => pct_out[i] = Frac(100, Count(i))

\* C9 amended: the window's maximum ranks 100, and a value strictly below every
\* other non-null value of its window ranks 100 / (number of non-null values).
C9_MaxAndStrictMin ==
    \A i \in PctComputed :
        ~IsNaN(series[i]) =>
            /\ IsWindowMax(i) => pct_out[i] = FromInt(100)
            /\ IsStrictWindowMin(i) => pct_out[i] = Frac(100, Count(i))

\* A strict minimum of a window of three values, ranked 100/3, and a maximum of
\* a window of several values, ranked 100, in one finished column.
C9_Witness ==
    /\ pc = "done"
    /\ \E i \in 1..Len(series) :
          /\ ~IsNaN(series[i])
          /\ Count(i) = 3
          /\ IsStrictWindowMin(i)
          /\ pct_out[i] = Frac(100, 3)
    /\ \E i \in 1..Len(series) :
          /\ ~IsNaN(series[i])
          /\ Count(i) >= 2
          /\ IsWindowMax(i)
          /\ pct_out[i] = FromInt(100)

\* The history the z-score waits for, and the first row that has it.
MinPeriods == Min(min_required_weeks, lookback_weeks)

FirstWithHistory(i) ==
    /\ Count(i) >= MinPeriods
    /\ \A j \in 1..(i - 1) : Count(j) < MinPeriods

\* C3 as written: the z-score is null while the window holds fewer than
\* min(min_required_weeks, lookback_weeks) values, and defined at the first row
\* whose window holds that many.
C3_AsWritten ==
    \A i \in ZComputed :
        /\ Count(i) < MinPeriods => ZIsNaN(z_out[i])
        /\ FirstWithHistory(i) => ~ZIsNaN(z_out[i])

\* C3 amended: null below the minimum history; at the first row with the
\* minimum history the z-score is defined provided the window holds at least
\* two values that are not all equal.
C3_GateAndFirstDefined ==
    \A i \in ZComputed :
        /\ Count(i) < MinPeriods => ZIsNaN(z_out[i])
        /\ (FirstWithHistory(i) /\ Count(i) >= 2 /\ ~WindowConstant(i)) =>
              ~ZIsNaN(z_out[i]) /\ ~ZIsInf(z_out[i])

\* A column with a null in it whose third or later row is the first with the
\* minimum history, and has a z-score, after rows that have none.
C3_Witness ==
    /\ pc = "done"
    /\ MinPeriods >= 2
    /\ \E i \in 3..Len(series) :
          /\ FirstWithHistory(i)
          /\ ~ZIsNaN(z_out[i])
          /\ \E j \in 1..(i - 1) : IsNaN(series[j])
          /\ \A j \in 1..(i - 1) : ZIsNaN(z_out[j])

\* C10: the z-score is null whenever the row's ratio is null or the window's
\* rolling std is null or zero; a window of equal values with adequate history
\* gives null, and no z-score is infinite.
C10_NullOnZeroStd ==
    \A i \in ZComputed :
        LET std == RollingStats(series, lookback_weeks, min_required_weeks).std[i]
        IN /\ (IsNaN(series[i]) \/ IsNaN(std) \/ std = FromInt(0)) => ZIsNaN(z_out[i])
           /\ (Count(i) >= MinPeriods /\ WindowConstant(i)) => ZIsNaN(z_out[i])
           /\ ~ZIsInf(z_out[i])

\* A row with a value, adequate history and a window of at least two equal
\* values: its std is zero and its z-score null.
C10_Witness ==
    /\ pc = "done"
    /\ \E i \in 2..Len(series) :
          /\ ~IsNaN(series[i])
          /\ Count(i) >= 2
          /\ Count(i) >= MinPeriods
          /\ WindowConstant(i)
          /\ RollingStats(series, lookback_weeks, min_required_weeks).std[i] = FromInt(0)
          /\ ZIsNaN(z_out[i])

\* The rows of one contract, in table order.
RowsOf(t, c) == SelectSeq(t, LAMBDA r : r["contract"] = c)

\* A coerced open interest that is zero or missing.
NoOpenInterest(r) == IsNaN(r["open_interest"]) \/ r["open_interest"] = FromInt(0)

RatiosNull(r) == IsNaN(r["am_net_pct_oi"]) /\ IsNaN(r["lf_net_pct_oi"])

DerivedNull(r) ==
    /\ RatiosNull(r)
    /\ ZIsNaN(r["asset_mgr_z"])
    /\ ZIsNaN(r["lev_fund_z"])
    /\ IsNaN(r["asset_mgr_pct"])
    /\ IsNaN(r["lev_fund_pct"])

\* C5: a row whose open interest is zero or missing gets null ratios as soon
\* as the ratios are computed (never an infinity), null z-scores and percentile
\* ranks in its group and in the returned table, and the call raises nothing.
C5_ZeroOpenInterestIsNull ==
    /\ err = "none"
    /\ pc \in {"primary", "grouping"} =>
          \A i \in 1..Len(work) : NoOpenInterest(work[i]) => RatiosNull(work[i])
    /\ \A k \in 1..Len(results) : \A i \in 1..Len(results[k]) :
          NoOpenInterest(results[k][i]) => DerivedNull(results[k][i])
    /\ pc = "returned" =>
          /\ Len(out) = Len(df)
          /\ \A i \in 1..Len(out) :
                df # <<>> /\ NoOpenInterest(out[i]) => DerivedNull(out[i])

\* A returned table holding a row with open interest zero and long # short,
\* and a row with open interest missing.
C5_Witness ==
    /\ pc = "returned"
    /\ \E i, j \in 1..Len(out) :
          /\ out[i]["open_interest"] = FromInt(0)
          /\ out[i]["asset_mgr_long"] # out[i]["asset_mgr_short"]
          /\ IsNaN(out[j]["open_interest"])
          /\ DerivedNull(out[i])
          /\ DerivedNull(out[j])

\* C6: when the table holds rows of two contracts, the rows the engine
\* returns for each contract are exactly the rows it returns when called on
\* that contract's input rows alone, and no row is lost or added.
C6_PartitionIsolation ==
    pc = "returned" =>
        /\ Len(out) = Len(df)
        /\ \A c \in ContractSet :
              RowsOf(df, c) # df =>
                  RowsOf(out, c) =
                      ComputePositioningMetrics(RowsOf(df, c), threshold,
                                                lookback_weeks,
                                                min_required_weeks)

\* A returned table of two contracts, given with the later contract first,
\* whose window would span both rows if the groups were not kept apart, and
\* whose two asset-manager ratios differ.
C6_Witness ==
    /\ pc = "returned"
    /\ Len(df) >= 2
    /\ lookback_weeks >= 2
    /\ df[1]["contract"] = "NQ"
    /\ df[2]["contract"] = "ES"
    /\ \E i, j \in 1..Len(out) :
          /\ out[i]["contract"] = "ES"
          /\ out[j]["contract"] = "NQ"
          /\ ~IsNaN(out[i]["am_net_pct_oi"])
          /\ ~IsNaN(out[j]["am_net_pct_oi"])
          /\ out[i]["am_net_pct_oi"] # out[j]["am_net_pct_oi"]

\* The table without the rows of contract c dated after d.
UpTo(t, c, d) ==
    SelectSeq(t, LAMBDA r : r["contract"] # c \/ r["report_date"] <= d)

\* C7: the derived rows of a contract up to any date are the ones the engine
\* returns for the table cut off after that date, so they cannot depend on a
\* later-dated row: two tables that agree up to the date have the same cut and
\* hence the same derived rows up to it.
C7_Causality ==
    pc = "returned" =>
        \A c \in ContractSet :
            LET g == RowsOf(out, c)
            IN \A k \in 1..(Len(g) - 1) :
                  SubSeq(g, 1, k) =
                      RowsOf(ComputePositioningMetrics(
                                 UpTo(df, c, g[k]["report_date"]), threshold,
                                 lookback_weeks, min_required_weeks), c)

\* A contract with two valued rows in one window, given latest first: the
\* second row is confirmed on the strength of the first.
C7_Witness ==
    /\ pc = "returned"
    /\ lookback_weeks >= 2
    /\ Len(df) >= 2
    /\ df[1]["contract"] = df[2]["contract"]
    /\ df[1]["report_date"] > df[2]["report_date"]
    /\ \E c \in ContractSet :
          LET g == RowsOf(out, c)
          IN /\ Len(g) >= 2
             /\ ~IsNaN(g[1]["am_net_pct_oi"])
             /\ ~IsNaN(g[2]["am_net_pct_oi"])
             /\ g[2]["is_confirmed_extreme_am_long"]

\* The rows i-w+1..i of a contract's rows g exist and are all flagged in
\* column `flag`.
TrailingAllFlagged(g, i, w, flag) ==
    /\ i >= w
    /\ \A k \in (i - w + 1)..i : g[k][flag]

\* C1: under the command line's confirm_weeks, a row's confirmed flag is true
\* only if the contract has at least confirm_weeks rows up to that row and the
\* last confirm_weeks of them are all flagged extreme, for both categories.
C1_AsWritten ==
    caller = "cli" /\ pc \in {"returned", "printed"} =>
        \A c \in ContractSet :
            LET g == RowsOf(out, c)
            IN \A i \in 1..Len(g) :
                  /\ g[i]["is_confirmed_extreme_am_long"] =>
                        TrailingAllFlagged(g, i, args.confirm_weeks,
                                           "is_extreme_am_long")
                  /\ g[i]["is_confirmed_extreme_lev_short"] =>
                        TrailingAllFlagged(g, i, args.confirm_weeks,
                                           "is_extreme_lev_short")

\* C4: under the command line's percentile thresholds and z threshold, a
\* returned row's is_extreme_am_long is true exactly when its percentile rank
\* is at or above am_long_pct or its z-score at or above the threshold, and
\* its is_extreme_lev_short exactly when its percentile rank is at or below
\* lf_short_pct or its z-score at or below minus the threshold.
C4_AsWritten ==
    caller = "cli" /\ pc \in {"returned", "printed"} =>
        \A i \in 1..Len(out) :
            /\ out[i]["is_extreme_am_long"] =
                  (FGe(out[i]["asset_mgr_pct"], args.am_long_pct)
                   \/ ZGe(out[i]["asset_mgr_z"], threshold))
            /\ out[i]["is_extreme_lev_short"] =
                  (FLe(out[i]["lev_fund_pct"], args.lf_short_pct)
                   \/ ZLe(out[i]["lev_fund_z"], FNeg(threshold)))

\* The derived columns of the two primary categories.
PrimaryDerivedCols ==
    {"am_net_pct_oi", "lf_net_pct_oi", "asset_mgr_z", "asset_mgr_pct",
     "lev_fund_z", "lev_fund_pct", "is_extreme_am_long",
     "is_extreme_lev_short", "is_confirmed_extreme_am_long",
     "is_confirmed_extreme_lev_short"}

\* C8: on a table without the secondary categories' columns the call raises
\* nothing, runs to its return, and returns every row with the primary derived
\* columns and without the derived columns of the absent categories.
C8_AsWritten ==
    present # SecondaryGroups /\ df # <<>> =>
        /\ err = "none"
        /\ pc # "raised"
        /\ pc \in {"returned", "printed"} =>
              /\ Len(out) = Len(df)
              /\ \A i \in 1..Len(out) :
                    /\ PrimaryDerivedCols \subseteq DOMAIN out[i]
                    /\ "dealer_z" \notin DOMAIN out[i]

\* The secondary categories' ratio and z-score columns.
SecondaryZCols ==
    {<<"di_net_pct_oi", "dealer_z">>, <<"or_net_pct_oi", "other_rep_z">>,
     <<"nr_net_pct_oi", "nonrept_z">>}

\* C11: in the returned table the dealer, other-reportable and non-reportable
\* z-scores of every contract are the ones _rolling_stats gives under the
\* caller's min_required_weeks, as the asset-manager and leveraged-fund
\* z-scores are: null below min(min_required_weeks, lookback_weeks) non-null
\* ratios in the window, (x - mean) / std otherwise.
C11_AsWritten ==
    pc = "returned" /\ df # <<>> =>
        \A c \in ContractSet :
            LET g == RowsOf(out, c)
            IN \A zc \in SecondaryZCols :
                  \A i \in 1..Len(g) :
                      g[i][zc[2]] =
                          SecondaryZFirstAssignment(g, zc[1], lookback_weeks,
                                                    min_required_weeks)[i]

\* Row i of a contract's rows g is the first whose asset-manager ratio is
\* non-null (the contract's first row, when that row has a ratio).
FirstValued(g, i) ==
    /\ ~IsNaN(g[i]["am_net_pct_oi"])
    /\ \A k \in 1..(i - 1) : IsNaN(g[k]["am_net_pct_oi"])

\* C12: under the default thresholds, the first row of a contract that has an
\* asset-manager ratio ranks 100 in its one-value window and is flagged
\* is_extreme_am_long and extreme_crowding whatever the ratio; and the
\* contract's second row is flagged is_confirmed_extreme_am_long whenever its
\* ratio is at or above the first row's.
C12_FirstRowAlwaysExtreme ==
    pc = "returned" =>
        \A c \in ContractSet :
            LET g == RowsOf(out, c)
            IN /\ \A i \in 1..Len(g) :
                     FirstValued(g, i) =>
                         /\ g[i]["asset_mgr_pct"] = FromInt(100)
                         /\ g[i]["is_extreme_am_long"]
                         /\ g[i]["extreme_crowding"]
               /\ Len(g) >= 2
                  /\ FGe(g[2]["am_net_pct_oi"], g[1]["am_net_pct_oi"]) =>
                     g[2]["is_confirmed_extreme_am_long"]

\* A contract returned under the defaults whose first ratio is the lowest of
\* the observations (0) and whose second is above it, with no z-score at
\* either row: both rows flagged on their percentile rank alone, the second
\* confirmed.
C12_Witness ==
    /\ pc = "returned"
    /\ threshold = THRESHOLD_DEFAULT
    /\ min_required_weeks = MIN_REQUIRED_WEEKS
    /\ lookback_weeks >= 2
    /\ \E c \in ContractSet :
          LET g == RowsOf(out, c)
          IN /\ Len(g) >= 2
             /\ g[1]["am_net_pct_oi"] = FromInt(0)
             /\ FGe(g[2]["am_net_pct_oi"], FromInt(50))
             /\ ZIsNaN(g[1]["asset_mgr_z"])
             /\ g[1]["is_extreme_am_long"]
             /\ g[1]["extreme_crowding"]
             /\ g[2]["is_confirmed_extreme_am_long"]

====
